---- MODULE Spec2Model ----
(***************************************************************************)
(* A model of Hedge_app.py: the FX hedging dashboard.                      *)
(*                                                                         *)
(*   - credential resolution           _load_api_key                       *)
(*   - the live-rate fetcher           get_live_rate and its ttl cache     *)
(*   - the hedge-log loader            load_hedge_log_for_pair             *)
(*   - the script body                 empty-log branch, performance       *)
(*                                     summary, decision simulator         *)
(*                                                                         *)
(* Python strings are sequences of tokens (a token is one character such   *)
(* as " ", "#", "=", or an atom standing for a run of ordinary characters), *)
(* so strip, split and replace are computed and not assumed.  Python       *)
(* floats are records with a class (finite, +inf, -inf, nan) and, for the  *)
(* finite ones, an integer value.                                          *)
(***************************************************************************)
EXTENDS Integers, Sequences, FiniteSets, TLC

VARIABLES
    \* ---- credential resolution
    secrets,      \* st.secrets: [raises, key], raises when there is no secrets store
    environ,      \* os.environ: a function from the names that are set to their values
    envFile,      \* the .env file next to the app: [exists, lines]
    dotenvOk,     \* whether python-dotenv imports and load_dotenv runs
    apiKey,       \* _API_KEY
    credPc,       \* "start" before line 55 has run, then "done" or "raised"
    \* ---- rate fetcher
    cache,        \* st.cache_data store of get_live_rate: pair -> NoEntry or [val, at]
    now,          \* the clock (seconds)
    callPair,     \* the pair of the last get_live_rate call
    resp1,        \* what the primary provider answers (would answer) in that call
    resp2,        \* what the secondary provider answers (would answer) in that call
    live_rate,    \* what the call returned
    calls,        \* the outbound calls the call made, in order
    hit,          \* whether the call was served from the cache
    rateRaised,   \* whether the call raised to its caller
    lookups,      \* how many GetLiveRate steps the rate specifications have taken
    \* ---- hedge log and script body
    disk,         \* the app folder: the names of the log files in it -> [ok, content]
    selected,     \* the pair selected in the sidebar
    log,          \* the table load_hedge_log_for_pair returned
    tried,        \* the parsing strategies it attempted, in order
    loadRaised,   \* whether it raised to its caller
    view,         \* what the session shows: "none", "no_log", "dashboard", "crash"
    rmse,         \* performance summary
    mae,
    dir_acc,
    pressed,      \* whether "Simulate Decision" was pressed in this run
    hyp,          \* hypothetical_rate, the number_input's value
    simOut        \* the simulator's message: "none", "no_prediction", "hedge_now", "wait", "neutral"

credVars == <<secrets, environ, envFile, dotenvOk, credPc>>
rateVars == <<cache, now, callPair, resp1, resp2, live_rate, calls, hit, rateRaised, lookups>>
flowVars == <<disk, selected, log, tried, loadRaised, view, rmse, mae, dir_acc, pressed, hyp, simOut>>
vars == <<credVars, apiKey, rateVars, flowVars>>

(***************************************************************************)
(* Python values                                                           *)
(***************************************************************************)
None == [some |-> FALSE]
Some(x) == [some |-> TRUE, v |-> x]

\* floats
Fin(n) == [c |-> "fin", v |-> n]
PosInf == [c |-> "inf", v |-> 0]
NegInf == [c |-> "ninf", v |-> 0]
NaN == [c |-> "nan", v |-> 0]

IsNaN(f) == f.c = "nan"
IsFinite(f) == f.c = "fin"

\* a > b on floats; every comparison with nan is false
FGt(a, b) ==
    CASE IsNaN(a) \/ IsNaN(b) -> FALSE
      [] a.c = "inf" -> b.c # "inf"
      [] a.c = "ninf" -> FALSE
      [] b.c = "inf" -> FALSE
      [] b.c = "ninf" -> TRUE
      [] OTHER -> a.v > b.v

FLt(a, b) == FGt(b, a)

\* strings: the empty string is falsy
EmptyStr == <<>>
Truthy(opt) == opt.some /\ Len(opt.v) > 0

(***************************************************************************)
(* String helpers (str.strip, "x" in s, str.split(sep, 1))                 *)
(***************************************************************************)
RECURSIVE LStrip(_)
LStrip(s) == IF s # <<>> /\ Head(s) = " " THEN LStrip(Tail(s)) ELSE s

RECURSIVE RStrip(_)
RStrip(s) == IF s # <<>> /\ s[Len(s)] = " " THEN RStrip(SubSeq(s, 1, Len(s) - 1)) ELSE s

Strip(s) == RStrip(LStrip(s))

Contains(s, t) == \E i \in 1..Len(s) : s[i] = t

\* the index of the first t in s (s contains t)
IndexOf(s, t) == CHOOSE i \in 1..Len(s) : s[i] = t /\ \A j \in 1..(i - 1) : s[j] # t

\* s.split(t, 1) for an s that contains t
SplitOnce(s, t) == LET i == IndexOf(s, t) IN <<SubSeq(s, 1, i - 1), SubSeq(s, i + 1, Len(s))>>

StartsWith(s, t) == s # <<>> /\ Head(s) = t

(***************************************************************************)
(* Credential resolution: _load_api_key, lines 19-55                       *)
(***************************************************************************)
MaxLineLen == 4
MaxEnvLines == 1

FX_API_KEY == <<"FX_API_KEY">>

LineTokens == {" ", "#", "=", "FX_API_KEY", "v"}
EnvLines == UNION {[1..n -> LineTokens] : n \in 0..MaxLineLen}
EnvTexts == UNION {[1..n -> EnvLines] : n \in 0..MaxEnvLines}

NoFile == [exists |-> FALSE, lines |-> <<>>]
EnvFiles == {NoFile} \cup {[exists |-> TRUE, lines |-> t] : t \in EnvTexts}

KeyValues == {None, Some(EmptyStr), Some(<<"s">>)}
SecretStores == {[raises |-> TRUE, key |-> None]} \cup {[raises |-> FALSE, key |-> k] : k \in KeyValues}

NoEnviron == [n \in {} |-> <<>>]
Environs == {NoEnviron, FX_API_KEY :> EmptyStr, FX_API_KEY :> <<"e">>}

\* os.getenv(name)
getenv(env, name) == IF name \in DOMAIN env THEN Some(env[name]) ELSE None

\* os.environ.setdefault(k, v): an existing entry, even an empty one, is kept
setdefault(env, k, v) == IF k \in DOMAIN env THEN env ELSE env @@ (k :> v)

\* an environment name the OS refuses: os.environ[""] = v raises
IllegalName(k) == k = <<>>

\* lines 44-48: the minimal loader, over the lines that are left
RECURSIVE FallbackLoad(_, _)
FallbackLoad(lines, env) ==
    IF lines = <<>> THEN [env |-> env, raised |-> FALSE]
    ELSE LET line == Head(lines) IN
         IF line = <<>> \/ StartsWith(Strip(line), "#") \/ ~Contains(line, "=")
         THEN FallbackLoad(Tail(lines), env)
         ELSE LET kv == SplitOnce(line, "=")
                  k == Strip(kv[1])
                  v == Strip(kv[2])
              IN  IF IllegalName(k) THEN [env |-> env, raised |-> TRUE]
                  ELSE FallbackLoad(Tail(lines), setdefault(env, k, v))

\* python-dotenv's reading of a value: an inline " #..." comment is cut
RECURSIVE CutComment(_)
CutComment(v) ==
    IF Len(v) < 2 THEN v
    ELSE IF v[1] = " " /\ StartsWith(LStrip(v), "#") THEN <<>>
    ELSE <<Head(v)>> \o CutComment(Tail(v))

\* python-dotenv's bindings of a file: a later binding of a name replaces an earlier one
RECURSIVE DotenvValues(_, _)
DotenvValues(lines, acc) ==
    IF lines = <<>> THEN acc
    ELSE LET line == Head(lines) IN
         IF StartsWith(LStrip(line), "#") \/ ~Contains(line, "=")
         THEN DotenvValues(Tail(lines), acc)
         ELSE LET kv == SplitOnce(line, "=")
                  k == Strip(kv[1])
                  v == RStrip(CutComment(LStrip(kv[2])))
              IN  IF k = <<>> \/ Contains(k, " ") \/ Contains(k, "#")
                  THEN DotenvValues(Tail(lines), acc)
                  ELSE DotenvValues(Tail(lines), (k :> v) @@ acc)

\* line 38: load_dotenv(dotenv_path=env_path, override=False)
load_dotenv(lines, env) == env @@ DotenvValues(lines, NoEnviron)

\* lines 19-53; the result is [ret, env, raised]
_load_api_key(sec, env, file, ok) ==
    IF ~sec.raises /\ Truthy(sec.key)
    THEN [ret |-> sec.key, env |-> env, raised |-> FALSE]
    ELSE IF Truthy(getenv(env, FX_API_KEY))
    THEN [ret |-> getenv(env, FX_API_KEY), env |-> env, raised |-> FALSE]
    ELSE IF ~file.exists
    THEN [ret |-> None, env |-> env, raised |-> FALSE]
    ELSE IF ok
    THEN LET e2 == load_dotenv(file.lines, env)
             key == getenv(e2, FX_API_KEY)
         IN  [ret |-> IF Truthy(key) THEN key ELSE None, env |-> e2, raised |-> FALSE]
    ELSE LET r == FallbackLoad(file.lines, env)
             key == getenv(r.env, FX_API_KEY)
         IN  IF r.raised THEN [ret |-> None, env |-> r.env, raised |-> TRUE]
             ELSE [ret |-> IF Truthy(key) THEN key ELSE None, env |-> r.env, raised |-> FALSE]

CredInit ==
    /\ secrets \in SecretStores
    /\ environ \in Environs
    /\ envFile \in EnvFiles
    /\ dotenvOk \in BOOLEAN
    /\ apiKey = None
    /\ credPc = "start"

\* line 55: _API_KEY = _load_api_key(), once, as the process starts
LoadApiKey ==
    /\ credPc = "start"
    /\ LET r == _load_api_key(secrets, environ, envFile, dotenvOk) IN
         /\ apiKey' = r.ret
         /\ environ' = r.env
         /\ credPc' = IF r.raised THEN "raised" ELSE "done"
    /\ UNCHANGED <<secrets, envFile, dotenvOk, rateVars, flowVars>>

(***************************************************************************)
(* Rate fetcher: lines 62-98                                               *)
(***************************************************************************)
\* line 168
currency_pairs == <<<<"NZD", "USD">>, <<"USD", "NZD">>, <<"AUD", "NZD">>, <<"NZD", "AUD">>>>
Pairs == {currency_pairs[i] : i \in 1..Len(currency_pairs)}

\* the pairs get_live_rate is called with in the rate specifications
RatePairs == {currency_pairs[1], currency_pairs[3]}

\* JSON values a provider may put at the quote's place
JNull == [t |-> "null", f |-> NaN]
JNum(f) == [t |-> "num", f |-> f]
JNumStr(f) == [t |-> "numstr", f |-> f]     \* a string float() parses, such as "3.0"
JBadStr == [t |-> "badstr", f |-> NaN]      \* a string float() rejects
JList == [t |-> "list", f |-> NaN]

RateValues ==
    {JNull, JNum(Fin(2)), JNum(Fin(0)), JNum(Fin(-1)), JNum(PosInf), JNum(NaN),
     JNumStr(Fin(3)), JBadStr, JList}

\* a response body: not a JSON object, or an object with one top-level key whose
\* value is not an object, an object without the quote, or an object with it
TopKeys == {"conversion_rates", "rates"}
NotDict == [shape |-> "notdict", key |-> "", inner |-> "", val |-> JNull]
Bodies ==
    {NotDict}
    \cup {[shape |-> "dict", key |-> k, inner |-> i, val |-> JNull] :
             k \in TopKeys, i \in {"notdict", "noquote"}}
    \cup {[shape |-> "dict", key |-> k, inner |-> "rate", val |-> v] :
             k \in TopKeys, v \in RateValues}

\* what a provider does with a request
Responses ==
    {[status |-> st, body |-> NotDict] : st \in {"transport", "http", "badjson"}}
    \cup {[status |-> "ok", body |-> b] : b \in Bodies}

\* the exceptions the calls below raise; all derive from Exception
ExceptionClasses ==
    {"ConnectionError", "HTTPError", "JSONDecodeError", "AttributeError", "ValueError", "TypeError"}

\* lines 65-69 and 71-75: requests.get (with its timeout), raise_for_status, r.json()
_call_provider(resp) ==
    CASE resp.status = "transport" -> [exc |-> "ConnectionError", data |-> NotDict]
      [] resp.status = "http" -> [exc |-> "HTTPError", data |-> NotDict]
      [] resp.status = "badjson" -> [exc |-> "JSONDecodeError", data |-> NotDict]
      [] OTHER -> [exc |-> "none", data |-> resp.body]

\* data.get(key, {}).get(quote): val = None when there is no rate
Lookup(data, key) ==
    IF data.shape = "notdict" THEN [exc |-> "AttributeError", val |-> None]
    ELSE IF data.key # key THEN [exc |-> "none", val |-> None]
    ELSE IF data.inner = "notdict" THEN [exc |-> "AttributeError", val |-> None]
    ELSE IF data.inner = "noquote" \/ data.val.t = "null" THEN [exc |-> "none", val |-> None]
    ELSE [exc |-> "none", val |-> Some(data.val)]

\* float(x)
PyFloat(x) ==
    CASE x.t \in {"num", "numstr"} -> [exc |-> "none", f |-> x.f]
      [] x.t = "badstr" -> [exc |-> "ValueError", f |-> NaN]
      [] OTHER -> [exc |-> "TypeError", f |-> NaN]

\* the statements inside one try block (lines 82-85, lines 91-94): [exc, ret], with
\* ret = Some(rate) when the block returns and None when it runs off its end
TryBody(resp, key) ==
    LET c == _call_provider(resp) IN
    IF c.exc # "none" THEN [exc |-> c.exc, ret |-> None]
    ELSE LET l == Lookup(c.data, key) IN
         IF l.exc # "none" THEN [exc |-> l.exc, ret |-> None]
         ELSE IF ~l.val.some THEN [exc |-> "none", ret |-> None]
         ELSE LET f == PyFloat(l.val.v) IN
              IF f.exc # "none" THEN [exc |-> f.exc, ret |-> None]
              ELSE [exc |-> "none", ret |-> Some(f.f)]

\* a handler that lets the network and attribute errors through
Handles_ValueErrorOnly(exc) == exc \in {"ValueError", "JSONDecodeError"}

\* lines 86 and 95: except Exception
Handles(exc) == exc \in ExceptionClasses

\* a try block with its handler: [ret, raised]
TryProvider(resp, key) ==
    LET b == TryBody(resp, key) IN
    [ret |-> b.ret, raised |-> b.exc # "none" /\ ~Handles(b.exc)]

\* the primary is tried whatever the credential
UsePrimary_Always(api_key) == TRUE

\* line 80: if api_key
UsePrimary(api_key) == Truthy(api_key)

\* both providers are asked and the secondary's rate preferred
get_live_rate_body_NoShortCircuit(api_key, r1, r2) ==
    LET p == IF UsePrimary(api_key) THEN TryProvider(r1, "conversion_rates")
             ELSE [ret |-> None, raised |-> FALSE]
        c1 == IF UsePrimary(api_key) THEN <<"primary">> ELSE <<>>
        q == TryProvider(r2, "rates")
    IN  [ret |-> IF q.ret.some THEN q.ret ELSE p.ret,
         calls |-> c1 \o <<"secondary">>, raised |-> p.raised \/ q.raised]

\* lines 78-98, the function under the decorator: [ret, calls, raised]
get_live_rate_body(api_key, r1, r2) ==
    LET p == IF UsePrimary(api_key) THEN TryProvider(r1, "conversion_rates")
             ELSE [ret |-> None, raised |-> FALSE]
        c1 == IF UsePrimary(api_key) THEN <<"primary">> ELSE <<>>
    IN  IF p.raised THEN [ret |-> None, calls |-> c1, raised |-> TRUE]
        ELSE IF p.ret.some THEN [ret |-> p.ret, calls |-> c1, raised |-> FALSE]
        ELSE LET q == TryProvider(r2, "rates") IN
             [ret |-> q.ret, calls |-> c1 \o <<"secondary">>, raised |-> q.raised]

\* line 77: @st.cache_data(ttl=60)
TTL == 60

NoEntry == [set |-> FALSE, val |-> None, at |-> 0]
Entry(val, at) == [set |-> TRUE, val |-> val, at |-> at]

\* an entry that never expires
Live_Forever(e, t) == e.set

\* an entry serves lookups until ttl seconds have passed since it was stored
Live(e, t) == e.set /\ t < e.at + TTL

\* the decorated get_live_rate(base, quote): [ret, calls, raised, hit, cache]
get_live_rate(c, t, api_key, pair, r1, r2) ==
    IF Live(c[pair], t)
    THEN [ret |-> c[pair].val, calls |-> <<>>, raised |-> FALSE, hit |-> TRUE, cache |-> c]
    ELSE LET r == get_live_rate_body(api_key, r1, r2) IN
         [ret |-> r.ret, calls |-> r.calls, raised |-> r.raised, hit |-> FALSE,
          cache |-> IF r.raised THEN c ELSE [c EXCEPT ![pair] = Entry(r.ret, t)]]

\* bounds of the rate specifications
MaxLookups == 3
TickSeconds == 30
MaxTime == 120

ApiKeys == {None, Some(<<"k">>)}
NoCache == [p \in Pairs |-> NoEntry]

(***************************************************************************)
(* Hedge log: load_hedge_log_for_pair, lines 100-160                       *)
(*                                                                         *)
(* A table is [cols, rows]: the column names in order and the rows, each a *)
(* sequence of cells as long as cols.  A cell is a float (nan is pandas'   *)
(* missing value) or a string.                                             *)
(***************************************************************************)
StrCell == [c |-> "str", v |-> 0]

\* pd.DataFrame()
EmptyFrame == [cols |-> <<>>, rows |-> <<>>]

\* DataFrame.empty: an axis of length 0
IsEmpty(df) == Len(df.cols) = 0 \/ Len(df.rows) = 0

\* str.lower() on the currency codes
Lower(code) ==
    CASE code = "NZD" -> "nzd"
      [] code = "USD" -> "usd"
      [] code = "AUD" -> "aud"
      [] OTHER -> code

\* line 101: f"hedge_log_{base.lower()}{quote.lower()}.csv"
FileName(base, quote) == <<"hedge_log_", Lower(base), Lower(quote), ".csv">>

\* str.replace(" ", "_")
RECURSIVE ReplaceSpaces(_)
ReplaceSpaces(s) ==
    IF s = <<>> THEN <<>>
    ELSE <<IF Head(s) = " " THEN "_" ELSE Head(s)>> \o ReplaceSpaces(Tail(s))

\* lines 127, 138, 152, 183: df.columns.str.strip().str.replace(" ", "_")
NormalizeColumns(df) ==
    [df EXCEPT !.cols = [i \in 1..Len(df.cols) |-> ReplaceSpaces(Strip(df.cols[i]))]]

Digits == <<"0", "1", "2", "3", "4">>

\* line 125-126: pd.read_csv(path, header=None) with columns col_0, col_1, ...
HeaderAsRow(df) ==
    [cols |-> [i \in 1..Len(df.cols) |-> <<"col_", Digits[i]>>],
     rows |-> <<[i \in 1..Len(df.cols) |-> StrCell]>> \o df.rows]

\* the parsing strategies, in the order of the code
Strategies == <<"default", "utf-8-sig", "latin1", "sniff">>

\* pd.read_csv under strategy i: the file's table, or an exception
read_csv(file, i) ==
    IF file.ok[i] THEN [exc |-> "none", df |-> file.content]
    ELSE [exc |-> "ParserError", df |-> EmptyFrame]

\* line 124: a header-only file with several columns is read again without a header
HeaderOnly(df) == Len(df.rows) = 0 /\ Len(df.cols) > 1

\* the statements of the try block of strategy i
\* (lines 123-131, 137-141, 146-155): [exc, df]
StrategyBody(file, i) ==
    LET r == read_csv(file, i) IN
    IF r.exc # "none" THEN r
    ELSE IF i = 1 /\ HeaderOnly(r.df)
         THEN [exc |-> "none", df |-> NormalizeColumns(HeaderAsRow(r.df))]
         ELSE [exc |-> "none", df |-> NormalizeColumns(r.df)]

\* lines 132, 142, 156: except Exception
HandlesParse(exc) == exc \in {"ParserError", "UnicodeDecodeError", "EmptyDataError"}

\* a fallback that skips a strategy
NextStrategy_Skip(i) == i + 2

\* the strategy tried after strategy i has failed
NextStrategy(i) == i + 1

\* lines 122-160 from strategy i on: [df, tried, raised]
RECURSIVE ParseFrom(_, _, _)
ParseFrom(file, i, triedSoFar) ==
    IF i > Len(Strategies)
    THEN [df |-> EmptyFrame, tried |-> triedSoFar, raised |-> FALSE]
    ELSE LET b == StrategyBody(file, i)
             t == Append(triedSoFar, Strategies[i])
         IN  IF b.exc = "none" THEN [df |-> b.df, tried |-> t, raised |-> FALSE]
             ELSE IF ~HandlesParse(b.exc) THEN [df |-> EmptyFrame, tried |-> t, raised |-> TRUE]
             ELSE ParseFrom(file, NextStrategy(i), t)

\* no path.exists() test: every strategy fails on the missing file
load_hedge_log_for_pair_NoExistsTest(d, base, quote) ==
    LET filename == FileName(base, quote) IN
    IF filename \notin DOMAIN d
    THEN [df |-> EmptyFrame, tried |-> Strategies, raised |-> FALSE]
    ELSE ParseFrom(d[filename], 1, <<>>)

\* lines 100-160: [df, tried, raised]
load_hedge_log_for_pair(d, base, quote) ==
    LET filename == FileName(base, quote) IN
    IF filename \notin DOMAIN d
    THEN [df |-> EmptyFrame, tried |-> <<>>, raised |-> FALSE]
    ELSE ParseFrom(d[filename], 1, <<>>)

(***************************************************************************)
(* Script body: lines 174-267                                              *)
(***************************************************************************)
PREDICTED_RATE == <<"Predicted", "_", "Rate">>
LIVE_RATE == <<"Live", "_", "Rate">>
ERROR == <<"Error">>
CORRECT_DIRECTION == <<"CorrectDirection">>

\* "name" in log.columns, "name" in latest
HasCol(df, name) == \E i \in 1..Len(df.cols) : df.cols[i] = name

ColIdx(df, name) == CHOOSE i \in 1..Len(df.cols) : df.cols[i] = name

\* log.name
Column(df, name) == [r \in 1..Len(df.rows) |-> df.rows[r][ColIdx(df, name)]]

\* line 185: log.iloc[-1], read at one column
Latest(df, name) == df.rows[Len(df.rows)][ColIdx(df, name)]

\* Series.dropna()
DropNa(col) == SelectSeq(col, LAMBDA x : ~IsNaN(x))

RECURSIVE Sum(_)
Sum(xs) == IF xs = <<>> THEN 0 ELSE Head(xs).v + Sum(Tail(xs))

\* the summary's numbers are kept in units of 1/Scale
Scale == 10

\* the integer square root
ISqrt(n) == CHOOSE k \in 0..n : k * k <= n /\ (k + 1) * (k + 1) > n

\* Series.mean(): nan on an empty series
Mean(xs) == IF xs = <<>> THEN NaN ELSE Fin((Sum(xs) * Scale) \div Len(xs))

\* Series.pow(2)
Pow2(xs) == [i \in 1..Len(xs) |-> Fin(xs[i].v * xs[i].v)]

\* abs() left out
Abs_Missing(xs) == xs

\* Series.abs()
Abs(xs) == [i \in 1..Len(xs) |-> Fin(IF xs[i].v < 0 THEN 0 - xs[i].v ELSE xs[i].v)]

\* x ** 0.5 on a mean kept in units of 1/Scale
Root(m) == IF IsNaN(m) THEN NaN ELSE Fin(ISqrt(m.v * Scale))

\* line 218
Rmse(df) == IF HasCol(df, ERROR) THEN Root(Mean(Pow2(DropNa(Column(df, ERROR))))) ELSE NaN

\* line 219
Mae(df) == IF HasCol(df, ERROR) THEN Mean(Abs(DropNa(Column(df, ERROR)))) ELSE NaN

\* line 220
DirAcc(df) ==
    IF HasCol(df, CORRECT_DIRECTION)
    THEN LET m == Mean(DropNa(Column(df, CORRECT_DIRECTION))) IN
         IF IsNaN(m) THEN NaN ELSE Fin(m.v * 100)
    ELSE NaN

\* line 254: latest.Live_Rate if "Live_Rate" in latest else (live_rate or 0.0)
DefaultHyp(df, rate) ==
    IF HasCol(df, LIVE_RATE) THEN Latest(df, LIVE_RATE)
    ELSE IF rate.some /\ rate.v # Fin(0) THEN rate.v
    ELSE Fin(0)

\* line 256: float(latest.Predicted_Rate) if "Predicted_Rate" in latest else None
PredictedRate(df) ==
    IF HasCol(df, PREDICTED_RATE) THEN Some(Latest(df, PREDICTED_RATE)) ELSE None

\* lines 258-267
Simulate(press, predicted_rate, hypothetical_rate) ==
    IF ~press THEN "none"
    ELSE IF ~predicted_rate.some THEN "no_prediction"
    ELSE IF FGt(predicted_rate.v, hypothetical_rate) THEN "hedge_now"
    ELSE IF FLt(predicted_rate.v, hypothetical_rate) THEN "wait"
    ELSE "neutral"

\* a number the script did not get to compute
NotShown == [c |-> "none", v |-> 0]

\* One run of the script for the selected pair: the log is loaded; an empty log
\* ends the run at st.stop(); otherwise the live rate is fetched, the summary
\* computed and, when the button was pressed, the simulator run.  typed is what
\* the user put in the number_input (None: left at its default).
MainFlow(pair, typed, press) ==
    /\ \E l \in {load_hedge_log_for_pair(disk, pair[1], pair[2])} :
       \E df \in {NormalizeColumns(l.df)} :
       \E r \in {get_live_rate(cache, now, apiKey, pair, resp1, resp2)} :
       LET h == IF typed.some THEN typed.v ELSE DefaultHyp(df, r.ret)
           ran == ~l.raised /\ ~IsEmpty(l.df)
       IN  /\ selected' = pair
           /\ tried' = l.tried
           /\ loadRaised' = l.raised
           /\ log' = IF ran THEN df ELSE l.df
           /\ view' = IF l.raised THEN "crash"
                      ELSE IF IsEmpty(l.df) THEN "no_log"
                      ELSE IF r.raised THEN "crash"
                      ELSE "dashboard"
           /\ IF ran
              THEN /\ cache' = r.cache
                   /\ callPair' = pair
                   /\ live_rate' = r.ret
                   /\ calls' = r.calls
                   /\ hit' = r.hit
                   /\ rateRaised' = r.raised
              ELSE UNCHANGED <<cache, callPair, live_rate, calls, hit, rateRaised>>
           /\ IF ran /\ ~r.raised
              THEN /\ rmse' = Rmse(df)
                   /\ mae' = Mae(df)
                   /\ dir_acc' = DirAcc(df)
                   /\ pressed' = press
                   /\ hyp' = h
                   /\ simOut' = Simulate(press, PredictedRate(df), h)
              ELSE /\ rmse' = NotShown
                   /\ mae' = NotShown
                   /\ dir_acc' = NotShown
                   /\ pressed' = FALSE
                   /\ hyp' = NotShown
                   /\ simOut' = "none"
    /\ UNCHANGED <<disk, now, resp1, resp2, apiKey, lookups, credVars>>

(***************************************************************************)
(* Initial states and specifications                                       *)
(***************************************************************************)
\* the values the variables of a component hold while it has not run
CredIdle ==
    /\ secrets = [raises |-> TRUE, key |-> None]
    /\ environ = NoEnviron
    /\ envFile = NoFile
    /\ dotenvOk = TRUE
    /\ credPc = "done"

RateIdle ==
    /\ cache = NoCache
    /\ now = 0
    /\ callPair = currency_pairs[1]
    /\ live_rate = None
    /\ calls = <<>>
    /\ hit = FALSE
    /\ rateRaised = FALSE
    /\ lookups = 0

NoDisk == [n \in {} |-> NoFile]

FlowIdle ==
    /\ selected = currency_pairs[1]
    /\ log = EmptyFrame
    /\ tried = <<>>
    /\ loadRaised = FALSE
    /\ view = "none"
    /\ rmse = NotShown
    /\ mae = NotShown
    /\ dir_acc = NotShown
    /\ pressed = FALSE
    /\ hyp = NotShown
    /\ simOut = "none"

\* ---- credential resolution as the process starts
InitCred ==
    /\ CredInit
    /\ RateIdle /\ resp1 = [status |-> "transport", body |-> NotDict]
    /\ resp2 = [status |-> "transport", body |-> NotDict]
    /\ FlowIdle /\ disk = NoDisk

NextCred == LoadApiKey

SpecCred == InitCred /\ [][NextCred]_vars

\* ---- get_live_rate called with providers whose answers are fixed
GetLiveRate(pair) ==
    /\ lookups < MaxLookups
    /\ \E r \in {get_live_rate(cache, now, apiKey, pair, resp1, resp2)} :
         /\ cache' = r.cache
         /\ callPair' = pair
         /\ live_rate' = r.ret
         /\ calls' = r.calls
         /\ hit' = r.hit
         /\ rateRaised' = r.raised
    /\ lookups' = lookups + 1
    /\ UNCHANGED <<now, resp1, resp2, apiKey, credVars, flowVars>>

InitRate ==
    /\ CredIdle /\ apiKey \in ApiKeys
    /\ RateIdle /\ resp1 \in Responses /\ resp2 \in Responses
    /\ FlowIdle /\ disk = NoDisk

NextRate == \E pair \in RatePairs : GetLiveRate(pair)

SpecRate == InitRate /\ [][NextRate]_vars

\* ---- get_live_rate called while time passes and the providers' answers change
Ok(key, f) == [status |-> "ok", body |-> [shape |-> "dict", key |-> key, inner |-> "rate", val |-> JNum(f)]]

CachePrimary == {[status |-> "transport", body |-> NotDict], Ok("conversion_rates", Fin(2))}
CacheSecondary == {[status |-> "http", body |-> NotDict], Ok("rates", Fin(3))}

Tick ==
    /\ now + TickSeconds <= MaxTime
    /\ now' = now + TickSeconds
    /\ UNCHANGED <<cache, callPair, resp1, resp2, live_rate, calls, hit, rateRaised, lookups,
                   apiKey, credVars, flowVars>>

ProvidersChange ==
    /\ resp1' \in CachePrimary
    /\ resp2' \in CacheSecondary
    /\ <<resp1', resp2'>> # <<resp1, resp2>>
    /\ UNCHANGED <<cache, now, callPair, live_rate, calls, hit, rateRaised, lookups,
                   apiKey, credVars, flowVars>>

InitCache ==
    /\ CredIdle /\ apiKey \in ApiKeys
    /\ RateIdle /\ resp1 \in CachePrimary /\ resp2 \in CacheSecondary
    /\ FlowIdle /\ disk = NoDisk

NextCache ==
    \/ \E pair \in RatePairs : GetLiveRate(pair)
    \/ Tick
    \/ ProvidersChange

SpecCache == InitCache /\ [][NextCache]_vars

\* ---- the script run on a storage folder
MaxLoadRows == 1
MaxRows == 2

\* column names as a file spells them
RawPredicted == <<"Predicted", " ", "Rate">>
RawError == <<" ", "Error">>
RawCorrect == <<"CorrectDirection">>

Headers ==
    {<<RawPredicted>>, <<RawError>>, <<RawCorrect>>,
     <<RawPredicted, RawError>>, <<RawPredicted, RawCorrect>>, <<RawError, RawCorrect>>,
     <<RawPredicted, RawError, RawCorrect>>}

\* the cells a column holds: numbers, or nan for a missing cell
CellsOf(raw) ==
    CASE raw = RawPredicted -> {NaN, Fin(1), Fin(2)}
      [] raw = RawError -> {NaN, Fin(-1), Fin(2)}
      [] OTHER -> {Fin(1)}

AllCells == {NaN, Fin(-1), Fin(1), Fin(2)}
RowsOf(h) == {r \in [1..Len(h) -> AllCells] : \A i \in 1..Len(h) : r[i] \in CellsOf(h[i])}
TablesUpTo(n) == UNION {{[cols |-> h, rows |-> rs] : rs \in [1..k -> RowsOf(h)]} : h \in Headers, k \in 0..n}

\* the short files have one column or two
LoadHeaders == {<<RawError>>, <<RawPredicted, RawError>>}
LoadTables == {t \in TablesUpTo(MaxLoadRows) : t.cols \in LoadHeaders}

AllOk == [i \in 1..Len(Strategies) |-> TRUE]

\* a folder holds no log, or the log of one pair
DisksOf(files) == {NoDisk} \cup {FileName(p[1], p[2]) :> f : p \in RatePairs, f \in files}

\* any strategy may fail on the file; the file is short
LogDisks == DisksOf({[ok |-> o, content |-> t] : o \in [1..Len(Strategies) -> BOOLEAN], t \in LoadTables})

\* every strategy reads the file; the file is longer
DashDisks == DisksOf({[ok |-> AllOk, content |-> t] : t \in TablesUpTo(MaxRows)})

HypInputs == {None, Some(Fin(1)), Some(Fin(2))}

FlowInit ==
    /\ CredIdle /\ apiKey = None
    /\ RateIdle /\ resp1 = [status |-> "transport", body |-> NotDict]
    /\ resp2 \in CacheSecondary
    /\ FlowIdle

InitLog == FlowInit /\ disk \in LogDisks

InitDash == FlowInit /\ disk \in DashDisks

NextFlow == \E pair \in Pairs, typed \in HypInputs, press \in BOOLEAN : MainFlow(pair, typed, press)

SpecLog == InitLog /\ [][NextFlow]_vars

SpecDash == InitDash /\ [][NextFlow]_vars

(***************************************************************************)
(* Properties of the rate fetcher, checked under SpecRate                  *)
(***************************************************************************)
\* the response carries a rate for the quote under the key the provider documents,
\* as a JSON number
NumericRate(resp, key) ==
    /\ resp.status = "ok"
    /\ resp.body.shape = "dict"
    /\ resp.body.key = key
    /\ resp.body.inner = "rate"
    /\ resp.body.val.t = "num"

\* the outcomes that give no rate: transport failure, non-2xx response, malformed
\* body, missing rate, non-numeric rate
NoRate(resp, key) ==
    \/ resp.status \in {"transport", "http", "badjson"}
    \/ resp.body.shape = "notdict"
    \/ resp.body.key # key
    \/ resp.body.inner \in {"notdict", "noquote"}
    \/ resp.body.val.t \in {"null", "badstr", "list"}

\* the last call of get_live_rate ran the function (it was no cache hit)
BodyRan == lookups > 0 /\ ~hit

\* C1: when a credential is configured and the primary call succeeds with a numeric
\* rate for the quote, that rate is returned and the secondary provider is not called.
C1_PrimaryShortCircuits ==
    (BodyRan /\ Truthy(apiKey) /\ NumericRate(resp1, "conversion_rates"))
        => /\ live_rate = Some(resp1.body.val.f)
           /\ calls = <<"primary">>
           /\ ~rateRaised

C1_Witness ==
    /\ BodyRan /\ Truthy(apiKey)
    /\ NumericRate(resp1, "conversion_rates") /\ NumericRate(resp2, "rates")
    /\ resp1.body.val.f = Fin(2) /\ resp2.body.val.f = Fin(0)
    /\ live_rate = Some(Fin(2))
    /\ calls = <<"primary">>

\* C2: with no credential configured no call of get_live_rate reaches the primary
\* provider; the one outbound call of a call that runs is to the secondary provider.
C2_NoCredentialNoPrimary ==
    (lookups > 0 /\ ~Truthy(apiKey))
        => /\ \A i \in 1..Len(calls) : calls[i] # "primary"
           /\ ~hit => calls = <<"secondary">>

C2_Witness ==
    /\ BodyRan /\ apiKey = None
    /\ NumericRate(resp1, "conversion_rates")
    /\ calls = <<"secondary">>

C4_FinitePositiveOrNone ==
    lookups > 0 => IF live_rate.some THEN IsFinite(live_rate.v) /\ live_rate.v.v > 0 ELSE TRUE

(***************************************************************************)
(* The rate cache, checked under SpecCache                                 *)
(***************************************************************************)
\* pair p has a result that was produced less than 60 seconds before time t
InWindow(p, t) == cache[p].set /\ t < cache[p].at + 60

\* the step is a call of get_live_rate
IsLookup == lookups' # lookups

\* C5: a lookup of a pair whose result was produced less than 60 seconds ago returns
\* that result and calls no provider; no step changes or removes an entry whose
\* window has not elapsed; a lookup of a pair with no entry, or with one whose
\* window has elapsed, asks the providers again and stores what they gave.
C5_RateCache ==
    [][ /\ (IsLookup /\ InWindow(callPair', now))
            => /\ hit'
               /\ calls' = <<>>
               /\ live_rate' = cache[callPair'].val
        /\ \A p \in Pairs : InWindow(p, now') => cache'[p] = cache[p]
        /\ (IsLookup /\ ~InWindow(callPair', now))
            => /\ ~hit'
               /\ calls' # <<>>
               /\ cache'[callPair'] = [set |-> TRUE, val |-> live_rate', at |-> now]
      ]_vars

\* a lookup served from the cache one tick after the result was produced, while
\* the providers would by now give no rate; the other pair's entry has expired
C5_Witness ==
    /\ hit /\ calls = <<>>
    /\ now = cache[callPair].at + TickSeconds
    /\ live_rate = Some(Fin(3))
    /\ resp1.status = "transport" /\ resp2.status = "http"
    /\ \E p \in Pairs : p # callPair /\ cache[p].set /\ now >= cache[p].at + 60

(***************************************************************************)
(* The hedge-log loader, checked under SpecLog                             *)
(***************************************************************************)
\* the script has run for the selected pair
HasRun == view # "none"

SelectedName == FileName(selected[1], selected[2])
SelectedExists == SelectedName \in DOMAIN disk
SelectedFile == disk[SelectedName]

\* nothing after st.stop() happened: no summary, no simulator, no rate lookup
Stopped ==
    /\ rmse = NotShown /\ mae = NotShown /\ dir_acc = NotShown
    /\ simOut = "none" /\ hyp = NotShown
    /\ ~cache[selected].set

\* C6: for a pair whose hedge_log_{base}{quote}.csv does not exist the loader returns
\* the empty log without raising and without trying any parse, and the session shows
\* the "no hedge log" placeholder and stops.
C6_MissingLogIsPlaceholder ==
    (HasRun /\ ~SelectedExists)
        => /\ log = EmptyFrame
           /\ tried = <<>>
           /\ ~loadRaised
           /\ view = "no_log"
           /\ Stopped

C6_Witness ==
    /\ HasRun /\ ~SelectedExists
    /\ selected = <<"AUD", "NZD">>
    /\ FileName("NZD", "USD") \in DOMAIN disk
    /\ view = "no_log"
    /\ tried = <<>>

\* every strategy failed on the file
AllFailed(file) == \A i \in 1..4 : ~file.ok[i]

\* the strategies were tried in their fixed order up to the first that succeeded,
\* the table of that one was returned, and nothing was raised
FirstSuccessInOrder ==
    /\ ~loadRaised
    /\ Len(tried) >= 1
    /\ tried = SubSeq(<<"default", "utf-8-sig", "latin1", "sniff">>, 1, Len(tried))
    /\ \A i \in 1..(Len(tried) - 1) : ~SelectedFile.ok[i]
    /\ IF SelectedFile.ok[Len(tried)]
       THEN /\ Len(log.cols) = Len(SelectedFile.content.cols)
            /\ \/ log.rows = SelectedFile.content.rows
               \/ /\ Len(tried) = 1
                  /\ HeaderOnly(SelectedFile.content)
                  /\ Len(log.rows) = 1
       ELSE Len(tried) = 4

\* C7 as claimed: ... and an empty log is returned exactly when every strategy failed.
C7_EmptyIffAllFailed ==
    (HasRun /\ SelectedExists)
        => /\ FirstSuccessInOrder
           /\ IsEmpty(log) <=> AllFailed(SelectedFile)

\* C7 as amended: the strategies are tried in the fixed order up to the first success,
\* whose table is returned, nothing is raised, and the column-less empty table is
\* returned exactly when every strategy failed (a strategy that succeeds may still
\* return a table without rows).
C7_PlaceholderIffAllFailed ==
    (HasRun /\ SelectedExists)
        => /\ FirstSuccessInOrder
           /\ log = EmptyFrame <=> AllFailed(SelectedFile)

C7_Witness ==
    /\ HasRun /\ SelectedExists
    /\ SelectedFile.ok = <<FALSE, FALSE, TRUE, TRUE>>
    /\ tried = <<"default", "utf-8-sig", "latin1">>
    /\ Len(log.rows) = 1
    /\ view = "dashboard"

(***************************************************************************)
(* The summary and the simulator, checked under SpecDash                   *)
(***************************************************************************)
\* the cell of the most recent entry in column name of the file, when the file has
\* the column (Predicted_Rate is spelled "Predicted Rate" in the files)
FileHasPredicted == \E i \in 1..Len(SelectedFile.content.cols) : SelectedFile.content.cols[i] = RawPredicted
FilePredicted ==
    LET t == SelectedFile.content
        i == CHOOSE j \in 1..Len(t.cols) : t.cols[j] = RawPredicted
    IN  t.rows[Len(t.rows)][i]

\* C9: on Simulate over a non-empty log the outcome is "no prediction available" when
\* the most recent entry has no predicted rate; otherwise it is "hedge now" exactly
\* when p > h, "wait" exactly when p < h and "neutral" exactly when p = h.
C9_Simulator ==
    (view = "dashboard" /\ pressed)
        => IF ~FileHasPredicted \/ IsNaN(FilePredicted)
           THEN simOut = "no_prediction"
           ELSE /\ simOut = "hedge_now" <=> FilePredicted.v > hyp.v
                /\ simOut = "wait" <=> FilePredicted.v < hyp.v
                /\ simOut = "neutral" <=> FilePredicted.v = hyp.v

\* the Error column of the file and its cells that are not missing
FileHasError == \E i \in 1..Len(SelectedFile.content.cols) : SelectedFile.content.cols[i] = RawError
FileErrors ==
    LET t == SelectedFile.content
        i == CHOOSE j \in 1..Len(t.cols) : t.cols[j] = RawError
    IN  {r \in 1..Len(t.rows) : t.rows[r][i].c # "nan"}

FileHoldsKey(file) ==
    /\ file.exists
    /\ \E i \in 1..Len(file.lines) :
         LET line == file.lines[i] IN
         /\ Contains(line, "=")
         /\ ~StartsWith(Strip(line), "#")
         /\ Strip(SplitOnce(line, "=")[1]) = FX_API_KEY
         /\ Strip(SplitOnce(line, "=")[2]) # <<>>

SecretHoldsKey(sec) == ~sec.raises /\ sec.key.some /\ sec.key.v # <<>>
EnvHoldsKey(env) == FX_API_KEY \in DOMAIN env /\ env[FX_API_KEY] # <<>>

\* the step in which _load_api_key returns
KeyLoaded == credPc = "start" /\ credPc' = "done"

\* C8: _load_api_key returns the value of the first layer, in the order secret store,
\* environment variable, .env file, that holds a non-empty FX_API_KEY, and None only
\* when no layer holds one.
C8_FirstNonEmptyLayerWins ==
    [][ KeyLoaded =>
          IF SecretHoldsKey(secrets) THEN apiKey' = secrets.key
          ELSE IF EnvHoldsKey(environ) THEN apiKey' = Some(environ[FX_API_KEY])
          ELSE IF FileHoldsKey(envFile) THEN Truthy(apiKey')
          ELSE apiKey' = None
      ]_vars

\* the same, for the starts in which the environment variable is not set to the
\* empty string
C8_UnlessEnvSetEmpty ==
    [][ (KeyLoaded /\ (FX_API_KEY \in DOMAIN environ => environ[FX_API_KEY] # <<>>)) =>
          IF SecretHoldsKey(secrets) THEN apiKey' = secrets.key
          ELSE IF EnvHoldsKey(environ) THEN apiKey' = Some(environ[FX_API_KEY])
          ELSE IF FileHoldsKey(envFile) THEN Truthy(apiKey')
          ELSE apiKey' = None
      ]_vars

====
